---------------------------- MODULE Spec2Model ----------------------------
(*************************************************************************)
(* Model of detector_full_candidate_name.py: the per-row body of main's  *)
(* loop (find_pii, the is_pii verdict, the masking dispatch) over        *)
(* decoded records.  A string is a sequence of one-character strings; a  *)
(* JSON value is a record [kind, s] with kind "str", "num" or "null".    *)
(*************************************************************************)
EXTENDS Integers, Sequences, FiniteSets, TLC

\* ------------------------------------------------------------------
\* Characters and the string primitives of Python the code relies on
\* ------------------------------------------------------------------
Digit == {"0","1","2","3","4","5","6","7","8","9"}

UpperSeq == <<"A","B","C","D","E","F","G","H","I","J","K","L","M","N","O","P","Q","R","S","T","U","V","W","X","Y","Z">>

LowerSeq == <<"a","b","c","d","e","f","g","h","i","j","k","l","m","n","o","p","q","r","s","t","u","v","w","x","y","z">>

Upper == {UpperSeq[i] : i \in 1..Len(UpperSeq)}

Lower == {LowerSeq[i] : i \in 1..Len(LowerSeq)}

Letter == Upper \cup Lower

\* \w of the re module (ASCII part)
WordChar == Letter \cup Digit \cup {"_"}

\* \s / str.strip / str.split whitespace
IsSpace(c) == c = " "

IsDigit(c) == c \in Digit

NotSpace(c) == ~IsSpace(c)

AllIn(s, S) == \A i \in 1..Len(s) : s[i] \in S

\* chr.lower()
lower_char(c) ==
    IF c \in Upper THEN LowerSeq[CHOOSE i \in 1..Len(UpperSeq) : UpperSeq[i] = c] ELSE c

\* str.lower()
lower(s) == [i \in 1..Len(s) |-> lower_char(s[i])]

\* str.strip()
strip(s) ==
    LET idx == {i \in 1..Len(s) : ~IsSpace(s[i])}
    IN  IF idx = {} THEN <<>>
        ELSE LET lo == CHOOSE i \in idx : \A j \in idx : i <= j
                 hi == CHOOSE i \in idx : \A j \in idx : i >= j
             IN  SubSeq(s, lo, hi)

\* char * n
Rep(c, n) == [i \in 1..n |-> c]

\* str.split(): the whitespace-separated tokens, in order
RECURSIVE split(_)
split(s) ==
    LET t == strip(s)
    IN  IF t = <<>> THEN <<>>
        ELSE LET sp == {i \in 1..Len(t) : IsSpace(t[i])}
                 e  == IF sp = {} THEN Len(t) + 1
                       ELSE CHOOSE i \in sp : \A j \in sp : i <= j
             IN  <<SubSeq(t, 1, e - 1)>> \o split(SubSeq(t, e, Len(t)))

\* " ".join(parts)
RECURSIVE join(_)
join(parts) ==
    IF parts = <<>> THEN <<>>
    ELSE IF Len(parts) = 1 THEN parts[1]
    ELSE parts[1] \o <<" ">> \o join(Tail(parts))

\* position of the first "@" (0 when there is none): "@" in s, s.split("@", 1)
FirstAt(s) ==
    LET at == {i \in 1..Len(s) : s[i] = "@"}
    IN  IF at = {} THEN 0 ELSE CHOOSE i \in at : \A j \in at : i <= j

\* ------------------------------------------------------------------
\* Constants & Regex (lines 14-19)
\* ------------------------------------------------------------------
EmailLocalChar == Letter \cup Digit \cup {".", "_", "%", "+", "-"}

DomainChar == Letter \cup Digit \cup {".", "-"}

UpiLocalChar == WordChar \cup {".", "-"}

\* EMAIL_RE.match(s): ^[A-Za-z0-9._%+\-]+@[A-Za-z0-9.\-]+\.[A-Za-z]{2,}$
EMAIL_RE(s) ==
    \E a \in 2..Len(s) : \E d \in (a + 2)..(Len(s) - 2) :
        /\ s[a] = "@"
        /\ AllIn(SubSeq(s, 1, a - 1), EmailLocalChar)
        /\ AllIn(SubSeq(s, a + 1, d - 1), DomainChar)
        /\ s[d] = "."
        /\ AllIn(SubSeq(s, d + 1, Len(s)), Letter)

\* one octet of IPV4_RE: 25[0-5] | 2[0-4]\d | 1?\d{1,2}
Octet(t) ==
    /\ Len(t) \in 1..3
    /\ AllIn(t, Digit)
    /\ Len(t) = 3 =>
         \/ t[1] = "1"
         \/ t[1] = "2" /\ t[2] \in {"0","1","2","3","4"}
         \/ t[1] = "2" /\ t[2] = "5" /\ t[3] \in {"0","1","2","3","4","5"}

\* \b at the gap before position i (1..Len(s)+1)
WordBoundary(s, i) ==
    LET before == i > 1 /\ s[i - 1] \in WordChar
        after  == i <= Len(s) /\ s[i] \in WordChar
    IN  before # after

\* IPV4_RE.search(s): \b(?:octet\.){3}octet\b somewhere in s
IPV4_RE(s) ==
    \E b \in 1..Len(s) : \E e \in b..Len(s) :
        /\ WordBoundary(s, b)
        /\ WordBoundary(s, e + 1)
        /\ \E d1 \in b..e : \E d2 \in d1..e : \E d3 \in d2..e :
              /\ d1 < d2 /\ d2 < d3
              /\ s[d1] = "." /\ s[d2] = "." /\ s[d3] = "."
              /\ Octet(SubSeq(s, b, d1 - 1))
              /\ Octet(SubSeq(s, d1 + 1, d2 - 1))
              /\ Octet(SubSeq(s, d2 + 1, d3 - 1))
              /\ Octet(SubSeq(s, d3 + 1, e))

\* PASSPORT_RE.match(s): ^[A-Za-z][0-9]{7}$
PASSPORT_RE(s) ==
    /\ Len(s) = 8
    /\ s[1] \in Letter
    /\ AllIn(Tail(s), Digit)

\* AADHAR_RE.match(s): ^\d{4}\s?\d{4}\s?\d{4}$
AADHAR_RE(s) ==
    \E g1 \in {0, 1} : \E g2 \in {0, 1} :
        /\ Len(s) = 12 + g1 + g2
        /\ AllIn(SubSeq(s, 1, 4), Digit)
        /\ g1 = 1 => IsSpace(s[5])
        /\ AllIn(SubSeq(s, 5 + g1, 8 + g1), Digit)
        /\ g2 = 1 => IsSpace(s[9 + g1])
        /\ AllIn(SubSeq(s, 9 + g1 + g2, 12 + g1 + g2), Digit)

\* the start positions of the matches of PHONE10_RE: (?<!\d)\d{10}(?!\d)
PHONE10_matches(s) ==
    {m \in 1..(Len(s) - 9) :
        /\ AllIn(SubSeq(s, m, m + 9), Digit)
        /\ (m = 1 \/ s[m - 1] \notin Digit)
        /\ (m + 9 = Len(s) \/ s[m + 10] \notin Digit)}

\* PHONE10_RE.search(s)
PHONE10_RE(s) == PHONE10_matches(s) # {}

\* UPI_RE.match(s): ^[\w.\-]{2,}@[A-Za-z][A-Za-z0-9.\-]{1,}$
UPI_RE(s) ==
    \E a \in 3..(Len(s) - 2) :
        /\ s[a] = "@"
        /\ AllIn(SubSeq(s, 1, a - 1), UpiLocalChar)
        /\ s[a + 1] \in Letter
        /\ AllIn(SubSeq(s, a + 2, Len(s)), DomainChar)

\* Canonical key names (lines 23-33)
PHONE_KEYS == {<<"p","h","o","n","e">>, <<"c","o","n","t","a","c","t">>, <<"m","o","b","i","l","e">>, <<"w","h","a","t","s","a","p","p">>, <<"c","o","n","t","a","c","t","_","n","o">>, <<"p","h","o","n","e","_","n","u","m","b","e","r">>}

AADHAR_KEYS == {<<"a","a","d","h","a","r">>, <<"a","a","d","h","a","a","r">>, <<"a","a","d","h","a","r","_","n","u","m","b","e","r">>}

PASSPORT_KEYS == {<<"p","a","s","s","p","o","r","t">>, <<"p","a","s","s","p","o","r","t","_","n","o">>}

UPI_KEYS == {<<"u","p","i","_","i","d">>, <<"v","p","a">>, <<"u","p","i">>}

NAME_KEYS == {<<"n","a","m","e">>, <<"f","i","r","s","t","_","n","a","m","e">>, <<"l","a","s","t","_","n","a","m","e">>}

EMAIL_KEYS == {<<"e","m","a","i","l">>, <<"e","m","a","i","l","_","i","d">>}

ADDR_KEYS == {<<"a","d","d","r","e","s","s">>, <<"r","e","s","i","d","e","n","t","i","a","l","_","a","d","d","r","e","s","s">>, <<"s","h","i","p","p","i","n","g","_","a","d","d","r","e","s","s">>, <<"a","d","d","r">>, <<"a","d","d","r","e","s","s","_","l","i","n","e","1">>}

CITY_KEYS == {<<"c","i","t","y">>}

PIN_KEYS == {<<"p","i","n","_","c","o","d","e">>, <<"p","i","n","c","o","d","e">>}

DEVICE_KEYS == {<<"d","e","v","i","c","e","_","i","d">>}

IP_KEYS == {<<"i","p","_","a","d","d","r","e","s","s">>, <<"i","p">>}

\* ------------------------------------------------------------------
\* Masking functions (lines 68-96)
\* ------------------------------------------------------------------
X == "X"

REDACTED == <<"[","R","E","D","A","C","T","E","D","_","P","I","I","]">>

\* mask_string with the filler one character too long
mask_string_long(s, visible_start, visible_end) ==
    IF s = <<>> THEN <<>>
    ELSE LET length == Len(s)
             masked_len == length - (visible_start + visible_end)
         IN  IF masked_len <= 0 THEN Rep(X, length)
             ELSE SubSeq(s, 1, visible_start) \o Rep(X, masked_len + 1)
                    \o SubSeq(s, length - visible_end + 1, length)

\* mask_string(s, visible_start, visible_end, char='X')
mask_string(s, visible_start, visible_end) ==
    IF s = <<>> THEN <<>>
    ELSE LET length == Len(s)
             masked_len == length - (visible_start + visible_end)
         IN  IF masked_len <= 0 THEN Rep(X, length)
             ELSE SubSeq(s, 1, visible_start) \o Rep(X, masked_len)
                    \o SubSeq(s, length - visible_end + 1, length)

\* PHONE10_RE.sub(lambda m: mask_string(m.group(0), 2, 2), phone_str or "")
mask_phone(phone_str) ==
    [i \in 1..Len(phone_str) |->
        IF \E m \in PHONE10_matches(phone_str) : i \in m..(m + 9)
        THEN LET m == CHOOSE m \in PHONE10_matches(phone_str) : i \in m..(m + 9)
             IN  mask_string(SubSeq(phone_str, m, m + 9), 2, 2)[i - m + 1]
        ELSE phone_str[i]]

mask_aadhar(aadhar_str) ==
    LET digits == SelectSeq(aadhar_str, NotSpace)
    IN  IF Len(digits) # 12 \/ ~AllIn(digits, Digit) THEN REDACTED
        ELSE <<"X","X","X","X"," ","X","X","X","X"," ">> \o SubSeq(digits, Len(digits) - 3, Len(digits))

mask_passport(s) == mask_string(strip(s), 1, 2)

mask_email(s) ==
    IF FirstAt(s) = 0 THEN REDACTED
    ELSE LET user   == SubSeq(s, 1, FirstAt(s) - 1)
             domain == SubSeq(s, FirstAt(s) + 1, Len(s))
         IN  mask_string(user, 2, 0) \o <<"@">> \o domain

mask_name(s) ==
    LET parts == split(s)
    IN  join([i \in 1..Len(parts) |-> <<parts[i][1]>> \o Rep(X, Len(parts[i]) - 1)])

mask_address(s) == REDACTED

mask_pin(s) == mask_string(SelectSeq(s, IsDigit), 0, 2)

mask_ip(s) == <<"*","*","*",".","*","*","*",".","*","*","*",".","*","*","*">>

\* ------------------------------------------------------------------
\* Records: a decoded payload is a sequence of fields [k, v] with
\* distinct names (a dict in insertion order)
\* ------------------------------------------------------------------
StrV(s) == [kind |-> "str", s |-> s]

NumV(s) == [kind |-> "num", s |-> s]

NullV == [kind |-> "null", s |-> <<>>]

\* str(v or "")
str_or_empty(v) ==
    IF v.kind = "null" THEN <<>>
    ELSE IF v.kind = "num" /\ AllIn(v.s, {"0"}) THEN <<>>
    ELSE v.s

\* normalized with the first of two colliding names kept instead of the last
normalized_first(record) ==
    LET keys == {lower(record[i].k) : i \in DOMAIN record}
    IN  [lk \in keys |->
            LET at    == {i \in DOMAIN record : lower(record[i].k) = lk}
                first == CHOOSE i \in at : \A j \in at : i <= j
            IN  str_or_empty(record[first].v)]

\* {k.lower(): str(v or "") for k, v in record.items()}: when two names
\* lower to the same key, the later item overwrites the earlier one
normalized(record) ==
    LET keys == {lower(record[i].k) : i \in DOMAIN record}
    IN  [lk \in keys |->
            LET at   == {i \in DOMAIN record : lower(record[i].k) = lk}
                last == CHOOSE i \in at : \A j \in at : j <= i
            IN  str_or_empty(record[last].v)]

\* normalized.get(key, "") / normalized.get(key): both falsy when absent
get(n, key) == IF key \in DOMAIN n THEN n[key] ELSE <<>>

Strong == {"phone", "aadhar", "passport", "upi"}

Weak == {"name", "email", "address", "device", "ip"}

Category == Strong \cup Weak

\* find_pii(record) -> Dict[str, bool]
find_pii(record) ==
    LET n == normalized(record)
        K == DOMAIN n
        has_name == \/ strip(get(n, <<"n","a","m","e">>)) # <<>>
                    \/ get(n, <<"f","i","r","s","t","_","n","a","m","e">>) # <<>> /\ get(n, <<"l","a","s","t","_","n","a","m","e">>) # <<>>
        has_addr == \E k \in K : k \in ADDR_KEYS /\ n[k] # <<>>
        has_pin  == \E k \in K : k \in PIN_KEYS /\ Len(SelectSeq(n[k], IsDigit)) = 6
    IN  [c \in Category |->
            CASE c = "phone"    -> \E k \in K : k \in PHONE_KEYS /\ PHONE10_RE(n[k])
              [] c = "aadhar"   -> \E k \in K : k \in AADHAR_KEYS /\ AADHAR_RE(strip(n[k]))
              [] c = "passport" -> \E k \in K : k \in PASSPORT_KEYS /\ PASSPORT_RE(strip(n[k]))
              [] c = "upi"      -> \E k \in K : k \in UPI_KEYS /\ UPI_RE(strip(n[k]))
              [] c = "email"    -> \E k \in K : k \in EMAIL_KEYS /\ EMAIL_RE(strip(n[k]))
              [] c = "ip"       -> \E k \in K : k \in IP_KEYS /\ IPV4_RE(n[k])
              [] c = "device"   -> \E k \in K : k \in DEVICE_KEYS /\ n[k] # <<>>
              [] c = "name"     -> has_name
              [] c = "address"  -> has_addr /\ has_pin]

B2N(b) == IF b THEN 1 ELSE 0

\* lines 161-163
strong_pii(flags) ==
    flags["phone"] \/ flags["aadhar"] \/ flags["passport"] \/ flags["upi"]

weak_pii_count(flags) ==
    B2N(flags["name"]) + B2N(flags["email"]) + B2N(flags["address"])
        + B2N(flags["device"]) + B2N(flags["ip"])

\* the verdict with the weak threshold at 1
verdict_weak1(flags) == strong_pii(flags) \/ weak_pii_count(flags) >= 1

verdict(flags) == strong_pii(flags) \/ weak_pii_count(flags) >= 2

\* the if/elif chain with the final else writing val_str instead of v
redact_value_stringify(k, v, flags) ==
    LET val_str == str_or_empty(v)
        k_lower == lower(k)
    IN  IF k_lower \in PHONE_KEYS /\ flags["phone"] THEN StrV(mask_phone(val_str))
        ELSE IF k_lower \in AADHAR_KEYS /\ flags["aadhar"] THEN StrV(mask_aadhar(val_str))
        ELSE IF k_lower \in PASSPORT_KEYS /\ flags["passport"] THEN StrV(mask_passport(val_str))
        ELSE IF k_lower \in EMAIL_KEYS /\ flags["email"] THEN StrV(mask_email(val_str))
        ELSE IF k_lower \in NAME_KEYS /\ flags["name"] THEN StrV(mask_name(val_str))
        ELSE IF k_lower \in ADDR_KEYS /\ flags["address"] THEN StrV(mask_address(val_str))
        ELSE IF k_lower \in PIN_KEYS /\ flags["address"] THEN StrV(mask_pin(val_str))
        ELSE IF k_lower \in IP_KEYS /\ flags["ip"] THEN StrV(mask_ip(val_str))
        ELSE StrV(val_str)

\* lines 168-189: the if/elif chain for one item (k, v)
redact_value(k, v, flags) ==
    LET val_str == str_or_empty(v)
        k_lower == lower(k)
    IN  IF k_lower \in PHONE_KEYS /\ flags["phone"] THEN StrV(mask_phone(val_str))
        ELSE IF k_lower \in AADHAR_KEYS /\ flags["aadhar"] THEN StrV(mask_aadhar(val_str))
        ELSE IF k_lower \in PASSPORT_KEYS /\ flags["passport"] THEN StrV(mask_passport(val_str))
        ELSE IF k_lower \in EMAIL_KEYS /\ flags["email"] THEN StrV(mask_email(val_str))
        ELSE IF k_lower \in NAME_KEYS /\ flags["name"] THEN StrV(mask_name(val_str))
        ELSE IF k_lower \in ADDR_KEYS /\ flags["address"] THEN StrV(mask_address(val_str))
        ELSE IF k_lower \in PIN_KEYS /\ flags["address"] THEN StrV(mask_pin(val_str))
        ELSE IF k_lower \in IP_KEYS /\ flags["ip"] THEN StrV(mask_ip(val_str))
        ELSE v

\* lines 166-189: redacted_data, same keys in the same order
redact(record, flags) ==
    [i \in DOMAIN record |->
        [k |-> record[i].k, v |-> redact_value(record[i].k, record[i].v, flags)]]

\* ------------------------------------------------------------------
\* Inputs
\* ------------------------------------------------------------------
MaxFields == 3

FieldPool ==
    { [k |-> <<"p","h","o","n","e">>,     v |-> StrV(<<"9","8","7","6","5","4","3","2","1","0">>)],
      [k |-> <<"P","h","o","n","e">>,     v |-> StrV(<<>>)],
      [k |-> <<"a","a","d","h","a","r">>,    v |-> StrV(<<"1","2","3","4"," ","5","6","7","8"," ","9","0","1","2">>)],
      [k |-> <<"a","a","d","h","a","a","r">>,   v |-> NullV],
      [k |-> <<"p","a","s","s","p","o","r","t">>,  v |-> StrV(<<"A","1","2","3","4","5","6","7">>)],
      [k |-> <<"u","p","i">>,       v |-> StrV(<<"a","b","@","y","b","l">>)],
      [k |-> <<"e","m","a","i","l">>,     v |-> StrV(<<"a","s","h","a","@","b",".","c","o","m">>)],
      [k |-> <<"n","a","m","e">>,      v |-> StrV(<<"A","s","h","a"," ","R","a","o">>)],
      [k |-> <<"a","d","d","r","e","s","s">>,   v |-> StrV(<<"1","2"," ","M","G"," ","R","o","a","d">>)],
      [k |-> <<"c","i","t","y">>,      v |-> StrV(<<"P","u","n","e">>)],
      [k |-> <<"p","i","n","_","c","o","d","e">>,  v |-> NumV(<<"5","6","0","0","0","1">>)],
      [k |-> <<"d","e","v","i","c","e","_","i","d">>, v |-> StrV(<<"D","1">>)],
      [k |-> <<"i","p">>,        v |-> StrV(<<"1","0",".","0",".","0",".","7">>)],
      [k |-> <<"n","o","t","e">>,      v |-> NumV(<<"7">>)] }

Names(record) == {record[i].k : i \in DOMAIN record}

RECURSIVE RecordsOfLen(_)
RecordsOfLen(n) ==
    IF n = 0 THEN {<<>>}
    ELSE UNION { {Append(r, f) : f \in {g \in FieldPool : g.k \notin Names(r)}}
                 : r \in RecordsOfLen(n - 1) }

Records == UNION {RecordsOfLen(n) : n \in 0..MaxFields}

\* ------------------------------------------------------------------
\* State: the locals of one iteration of main's loop (lines 149-199)
\* ------------------------------------------------------------------
VARIABLES
    data,           \* smart_json_loads(raw_json) of the current row
    pii_flags,      \* find_pii(data)
    is_pii,         \* the verdict of line 163
    redacted_data,  \* what line 191 / 193 serialises for the row
    pc,             \* "start", "parsed", "classified", "written"
    origin,         \* how the current row relates to the row before it
    prev            \* verdict and weak count of the row before, when related

vars == <<data, pii_flags, is_pii, redacted_data, pc, origin, prev>>

NoFlags == [c \in Category |-> FALSE]

NoPrev == [is_pii |-> FALSE, weak |-> 0, flags |-> NoFlags]

Init ==
    /\ data = <<>>
    /\ pii_flags = NoFlags
    /\ is_pii = FALSE
    /\ redacted_data = <<>>
    /\ pc = "start"
    /\ origin = "fresh"
    /\ prev = NoPrev

\* line 149: the loop moves on; nothing of the finished row is carried over
NextRow ==
    /\ pc = "written"
    /\ data' = <<>>
    /\ pii_flags' = NoFlags
    /\ is_pii' = FALSE
    /\ redacted_data' = <<>>
    /\ pc' = "start"
    /\ origin' = "fresh"
    /\ prev' = NoPrev

\* line 153: the row decodes to an arbitrary record
ReadRow ==
    /\ pc = "start"
    /\ \E r \in Records : data' = r
    /\ pii_flags' = NoFlags
    /\ is_pii' = FALSE
    /\ redacted_data' = <<>>
    /\ pc' = "parsed"
    /\ origin' = "fresh"
    /\ prev' = NoPrev

\* line 153: the next row is the row just written plus one field under a
\* name the row does not have yet (a dict gains the item at its end)
ReadExtended ==
    /\ pc = "written"
    /\ origin # "redacted"
    /\ Len(data) < MaxFields
    /\ \E f \in FieldPool :
          /\ f.k \notin Names(data)
          /\ data' = Append(data, f)
    /\ prev' = [is_pii |-> is_pii, weak |-> weak_pii_count(pii_flags), flags |-> pii_flags]
    /\ pii_flags' = NoFlags
    /\ is_pii' = FALSE
    /\ redacted_data' = <<>>
    /\ pc' = "parsed"
    /\ origin' = "extended"

\* line 153: the next row is the redacted record of the row just written
ReadRedacted ==
    /\ pc = "written"
    /\ origin # "redacted"
    /\ data' = redacted_data
    /\ prev' = [is_pii |-> is_pii, weak |-> weak_pii_count(pii_flags), flags |-> pii_flags]
    /\ pii_flags' = NoFlags
    /\ is_pii' = FALSE
    /\ redacted_data' = <<>>
    /\ pc' = "parsed"
    /\ origin' = "redacted"

\* lines 158-163
Classify ==
    /\ pc = "parsed"
    /\ pii_flags' = find_pii(data)
    /\ is_pii' = verdict(find_pii(data))
    /\ pc' = "classified"
    /\ UNCHANGED <<data, redacted_data, origin, prev>>

\* lines 165-191 and 195-199
Redact ==
    /\ pc = "classified"
    /\ is_pii
    /\ redacted_data' = redact(data, pii_flags)
    /\ pc' = "written"
    /\ UNCHANGED <<data, pii_flags, is_pii, origin, prev>>

\* lines 192-193 and 195-199
DumpAsIs ==
    /\ pc = "classified"
    /\ ~is_pii
    /\ redacted_data' = data
    /\ pc' = "written"
    /\ UNCHANGED <<data, pii_flags, is_pii, origin, prev>>

Next ==
    \/ NextRow
    \/ ReadRow
    \/ ReadExtended
    \/ ReadRedacted
    \/ Classify
    \/ Redact
    \/ DumpAsIs

Spec == Init /\ [][Next]_vars

\* ------------------------------------------------------------------
\* Vocabulary of the properties
\* ------------------------------------------------------------------
\* the alias set the code tests a field name against for each category
Alias(c) ==
    CASE c = "phone"    -> PHONE_KEYS
      [] c = "aadhar"   -> AADHAR_KEYS
      [] c = "passport" -> PASSPORT_KEYS
      [] c = "upi"      -> UPI_KEYS
      [] c = "email"    -> EMAIL_KEYS
      [] c = "name"     -> NAME_KEYS
      [] c = "address"  -> ADDR_KEYS
      [] c = "ip"       -> IP_KEYS
      [] c = "device"   -> DEVICE_KEYS

\* the validator find_pii applies to a value of a pattern-validated category
Valid(c, s) ==
    CASE c = "phone"    -> PHONE10_RE(s)
      [] c = "aadhar"   -> AADHAR_RE(strip(s))
      [] c = "passport" -> PASSPORT_RE(strip(s))
      [] c = "upi"      -> UPI_RE(strip(s))
      [] c = "email"    -> EMAIL_RE(strip(s))
      [] c = "ip"       -> IPV4_RE(s)

Patterned == {"phone", "aadhar", "passport", "upi", "email", "ip"}

Classified == pc \in {"classified", "written"}

Written == pc = "written"

\* field i of the current row, by lower-cased name and string value
KeyOf(i) == lower(data[i].k)

TextOf(i) == str_or_empty(data[i].v)

\* field i is a valid instance of category c
Matches(i, c) == KeyOf(i) \in Alias(c) /\ Valid(c, TextOf(i))

\* the name of field i is an alias of a category whose flag is set
InTriggered(i) == \E c \in Category : pii_flags[c] /\ KeyOf(i) \in Alias(c)

\* ------------------------------------------------------------------
\* C1: the verdict is true exactly when a strong category is flagged or
\* at least two weak categories are flagged; the empty record is non-PII.
\* ------------------------------------------------------------------
C1_Verdict ==
    Classified =>
        /\ is_pii <=> \/ \E c \in Strong : pii_flags[c]
                      \/ Cardinality({c \in Weak : pii_flags[c]}) >= 2
        /\ data = <<>> => ~is_pii

C1_Witness ==
    /\ pc = "classified"
    /\ is_pii
    /\ \A c \in Strong : ~pii_flags[c]
    /\ Cardinality({c \in Weak : pii_flags[c]}) = 2

\* ------------------------------------------------------------------
\* C2: a record with no name field, no email field and no phone-aliased
\* field gets no weak count from device and ip, so it is PII only through
\* a strong category.
\* ------------------------------------------------------------------
C2_UserContextGate ==
    LET NoUserContext ==
            \A i \in DOMAIN data :
                KeyOf(i) \notin (NAME_KEYS \cup EMAIL_KEYS \cup PHONE_KEYS)
    IN  (Classified /\ NoUserContext) => (is_pii => strong_pii(pii_flags))

\* ------------------------------------------------------------------
\* C3: every field that is a valid instance of a strong category has a
\* redacted value different from its input value.
\* ------------------------------------------------------------------
C3_StrongMasked ==
    Written =>
        \A i \in DOMAIN data : \A c \in Strong :
            Matches(i, c) => redacted_data[i].v # data[i].v

C5_EmptyUnchanged ==
    Written =>
        \A i \in DOMAIN data : TextOf(i) = <<>> => redacted_data[i] = data[i]

\* ------------------------------------------------------------------
\* C6: processing the redacted record of a row as the next row writes it
\* back unchanged.
\* ------------------------------------------------------------------
C6_Idempotent ==
    (Written /\ origin = "redacted") => redacted_data = data

C6_Witness ==
    /\ Written
    /\ origin = "redacted"
    /\ prev.is_pii
    /\ is_pii
    /\ \E i \in DOMAIN data :
          /\ InTriggered(i)
          /\ KeyOf(i) \in EMAIL_KEYS
          /\ \E j \in DOMAIN data[i].v.s : data[i].v.s[j] = X

\* ------------------------------------------------------------------
\* C7: when the field appended to a record is a valid instance of a strong
\* category, or takes the weak count from 1 to 2, the extended record is
\* PII (so the verdict never goes from true to false).
\* ------------------------------------------------------------------
Added == Len(data)

AddsStrongMatch == \E c \in Strong : Matches(Added, c)

AddsWeakMatch ==
    \/ \E c \in {"email", "ip"} : ~prev.flags[c] /\ Matches(Added, c)
    \/ ~prev.flags["device"] /\ KeyOf(Added) \in DEVICE_KEYS /\ TextOf(Added) # <<>>
    \/ ~prev.flags["name"] /\ KeyOf(Added) = <<"n","a","m","e">> /\ strip(TextOf(Added)) # <<>>

C8_EveryFieldClassified ==
    Classified =>
        \A c \in Patterned : pii_flags[c] <=> \E i \in DOMAIN data : Matches(i, c)

\* ------------------------------------------------------------------
\* C9: address is flagged exactly when an address field is non-empty and
\* there is a non-empty city field, a 6-digit pin field, or a 6-digit
\* code inside the address text.
\* ------------------------------------------------------------------
C9_AddressRule ==
    LET HasSixDigitRun(s) ==
            \E m \in 1..(Len(s) - 5) :
                /\ AllIn(SubSeq(s, m, m + 5), Digit)
                /\ (m = 1 \/ s[m - 1] \notin Digit)
                /\ (m + 5 = Len(s) \/ s[m + 6] \notin Digit)
    IN
    Classified =>
        (pii_flags["address"] <=>
            \E i \in DOMAIN data :
                /\ KeyOf(i) \in ADDR_KEYS
                /\ TextOf(i) # <<>>
                /\ \/ \E j \in DOMAIN data : KeyOf(j) \in CITY_KEYS /\ TextOf(j) # <<>>
                   \/ \E j \in DOMAIN data :
                         KeyOf(j) \in PIN_KEYS /\ Len(SelectSeq(TextOf(j), IsDigit)) = 6
                   \/ HasSixDigitRun(TextOf(i)))

\* ------------------------------------------------------------------
\* C10: a valid passport value is masked to its leading letter followed
\* by seven filler characters.
\* ------------------------------------------------------------------
C10_PassportLetterOnly ==
    Written =>
        \A i \in DOMAIN data :
            (is_pii /\ pii_flags["passport"] /\ Matches(i, "passport"))
                => redacted_data[i].v = StrV(<<strip(TextOf(i))[1]>> \o Rep(X, 7))

=============================================================================

